---- MODULE Spec2Model ----
(***************************************************************************)
(* The pinflow execution engine (src/src/index.ts): the Node class with    *)
(* its config and edge table, the retry wrapper executeWithRetry and the   *)
(* driver run.  One traversal of run over a small graph of nodes is        *)
(* modelled; prep, exec, execFallback and post are caller code, so their   *)
(* outcomes (yield / exhausted / throw, resolve / reject, returned action) *)
(* are inputs chosen by the environment.                                   *)
(*                                                                         *)
(* Granularity.  A step of the model is one continuation of the event      *)
(* loop together with the microtasks it triggers.  A yielded item is       *)
(* wrapped in an already resolved promise (line 213), so the pipeline's    *)
(* two `await item` (lines 215, 217) complete in the microtasks that       *)
(* follow the launch, before the driver's pending generator.next(item)     *)
(* can deliver another item: launch, prepItems.push and the first          *)
(* node.exec call are one step (PrepYield).  The settling of post's        *)
(* promise (PostResolve) and run's resumption with its value (Route) are   *)
(* two steps; nothing else is enabled between them.                        *)
(*                                                                         *)
(* Inputs.  Two nodes of one node class built with the same constructor    *)
(* argument; the graph is wired on the start node before run is called.    *)
(***************************************************************************)
EXTENDS Integers, Sequences, FiniteSets, TLC

\* ---------------------------------------------------------------- bounds
MaxItems == 2       \* items a prep generator yields in one cycle, at most
MaxCycles == 2      \* cycles (nested run calls) of one traversal, at most

\* ------------------------------------------------------- values and types
Nodes == {"n1", "n2"}
NoNode == "none"                 \* Map.get's undefined
StartNode == "n1"                \* the node handed to the outermost run
Wired == {StartNode}             \* the nodes connect is called on; "n2" is a leaf

KILL == "Symbol(KILL)"           \* index.ts:2, distinct from every string
UNDEFINED == "undefined"         \* post returned undefined / nothing
NULL == "null"                   \* post returned null
UNSET == "unset"                 \* a local not assigned yet
TheStore == "store"              \* the reference the caller hands to run
DefaultKey == "default"          \* index.ts:131, the reserved edge key

StringActions == {"a"}           \* the strings post returns
Actions == StringActions \cup {KILL, UNDEFINED, NULL}     \* index.ts:3
EdgeKeys == {"a", DefaultKey, KILL}   \* the keys of an edge table
\* the connect calls tried, as <<key, target>>: connect(target) sets the
\* default key
ConnectCalls ==
  {<<"a", "n1">>, <<"a", "n2">>, <<DefaultKey, "n1">>, <<DefaultKey, "n2">>,
   <<KILL, "n2">>}

DEFAULT_NODE_CONFIG == [maxRetries |-> 3, retryDelay |-> 2000, timeout |-> 60000]

ConfigFields == {"maxRetries", "retryDelay", "timeout"}

\* constructor arguments tried: none, and partial NodeConfig objects
NoConfig == [f \in {} |-> 0]
ConfigInputs ==
  { NoConfig,
    [maxRetries |-> 1, retryDelay |-> 10, timeout |-> 5],
    [maxRetries |-> 0, retryDelay |-> -1] }

\* mutant of MergeConfig: { ...config, ...DEFAULT_NODE_CONFIG }
MergeConfigDefaultsLast(arg) == DEFAULT_NODE_CONFIG

\* { ...DEFAULT_NODE_CONFIG, ...config }
MergeConfig(arg) ==
  [f \in ConfigFields |-> IF f \in DOMAIN arg THEN arg[f] ELSE DEFAULT_NODE_CONFIG[f]]

NoEdges == [k \in EdgeKeys |-> NoNode]

\* values flowing through a cycle
Item(c, i) == [cycle |-> c, idx |-> i]                 \* what prep yields
\* mutant of ExecValue: every pipeline processes the first item of the
\* cycle (the closure captures a variable shared by the pipelines)
ExecValueShared(item) == [of |-> [cycle |-> item.cycle, idx |-> 1], by |-> "exec"]
ExecValue(item) == [of |-> item, by |-> "exec"]        \* what exec resolves to
FallbackValue(item) == [of |-> item, by |-> "execFallback"]
NoError == [kind |-> "none", idx |-> 0, attempt |-> 0]
ExecError(i, a) == [kind |-> "exec", idx |-> i, attempt |-> a]
FallbackError(i) == [kind |-> "execFallback", idx |-> i, attempt |-> 0]
UnreachableError(i) == [kind |-> "Unreachable", idx |-> i, attempt |-> 0]
PrepError == [kind |-> "prep", idx |-> 0, attempt |-> 0]
PostError == [kind |-> "post", idx |-> 0, attempt |-> 0]

VARIABLES
  given,        \* given[n]: the NodeConfig object n's constructor received
  config,       \* config[n]: this.config
  hasFallback,  \* hasFallback[n]: n's class defines execFallback
  edges,        \* edges[n][k]: this.edges, NoNode where the key is absent
  chained,      \* what the latest connect call returned, NoNode before the
                \* first: the receiver of a chained .connect(...)
  phase,        \* position of the innermost run call
  frames,       \* the run calls, outermost first: the node and the store
                \* each was called with
  pulls,        \* generator.next() calls settled in the current cycle
  pipes,        \* pipes[i]: the pipeline launched for the i-th yielded item
  prepItems,    \* run's local prepItems
  execResults,  \* run's local execResults
  postArgs,     \* the <<prepItems, execResults, store>> the cycle's post
                \* received (line 226)
  postCalls,    \* post invocations of the current cycle
  action,       \* the innermost run call's local action (line 226): what
                \* its post resolved to, UNSET before
  outcome,      \* the promise of the outermost run
  runError,     \* what that promise rejected with
  stored,       \* what the node methods have written into the store: a
                \* mark for each node whose exec or execFallback (a
                \* completed pipeline) or whose post has written into it
  firstFailed   \* history: the pipeline of the current cycle whose promise
                \* rejected first, 0 while none has; no action reads it

vars == <<given, config, hasFallback, edges, chained, phase, frames, pulls,
          pipes, prepItems, execResults, postArgs, postCalls, action,
          outcome, runError, stored, firstFailed>>

graphVars == <<given, config, hasFallback, edges, chained>>

cycle == Len(frames)
node == IF frames = << >> THEN NoNode ELSE frames[cycle].node
store == IF frames = << >> THEN TheStore ELSE frames[cycle].store
Launched == DOMAIN pipes

\* ---------------------------------------------------------------- Node
\* mutant of connect: a key that has an edge keeps it
connectFirstWins(e, n, k, t) ==
  IF e[n][k] # NoNode THEN e ELSE [e EXCEPT ![n][k] = t]

\* mutant of connectResult: connect returns the target
connectResultTarget(n, k, t) == t

\* connect(action, target) / connect(target): Map.set on the edge table
connect(e, n, k, t) == [e EXCEPT ![n][k] = t]

\* return this (line 135)
connectResult(n, k, t) == n

\* getEdge(action): Map.get
getEdge(n, k) == IF k \in EdgeKeys THEN edges[n][k] ELSE NoNode

\* action ?? 'default'
Coalesce(a) == IF a \in {UNDEFINED, NULL} THEN DefaultKey ELSE a

\* mutants of NextNode: no default at all; the default edge looked up
\* first; no second lookup of the default edge
NextNodeExact(n, a) == getEdge(n, a)
NextNodeDefaultFirst(n, a) ==
  IF getEdge(n, DefaultKey) # NoNode THEN getEdge(n, DefaultKey)
  ELSE getEdge(n, Coalesce(a))
NextNodeNoFallback(n, a) == getEdge(n, Coalesce(a))

\* node.getEdge(action ?? 'default') || node.getEdge('default')
NextNode(n, a) ==
  IF getEdge(n, Coalesce(a)) # NoNode THEN getEdge(n, Coalesce(a))
  ELSE getEdge(n, DefaultKey)

\* mutant of Target: KILL routed like any other action
TargetNoKill(n, a) == NextNode(n, a)

\* mutant of Target: an edge back to the node itself is not followed
TargetNoSelf(n, a) ==
  IF a = KILL \/ NextNode(n, a) = n THEN NoNode ELSE NextNode(n, a)

\* lines 227-229: the node run recurses into, NoNode when it returns
Target(n, a) == IF a = KILL THEN NoNode ELSE NextNode(n, a)

\* ------------------------------------------------------ executeWithRetry
\* mutant of Attempts: maxRetries read as retries after the first attempt
AttemptsPlusOne(n) == config[n].maxRetries + 1

\* const maxRetries = node.config.maxRetries (line 165)
Attempts(n) == config[n].maxRetries

\* mutant of NewPipe: the pipeline does not call exec before prep is done
NewPipeDeferred(n, i) ==
  [pc |-> "waiting", attempt |-> 0, execCalls |-> 0, execLog |-> << >>,
   onErrors |-> << >>, fallbackCalls |-> 0, fallbackArg |-> NoError,
   error |-> NoError, store |-> store]

\* mutant of NewPipe: a do-while loop, exec is called once whatever
\* maxRetries is
NewPipeAtLeastOnce(n, i) ==
  [pc |-> "exec", attempt |-> 0, execCalls |-> 1, execLog |-> << >>,
   onErrors |-> << >>, fallbackCalls |-> 0, fallbackArg |-> NoError,
   error |-> NoError, store |-> store]

\* a pipeline right after its launch: the for loop is entered and exec is
\* called when 0 < maxRetries, otherwise line 184 throws.  execCalls counts
\* the node.exec calls, execLog lists how they settled, onErrors lists the
\* arguments of the node.onError calls, store is the store
\* executeWithRetry was called with (line 217) and hands to node.exec and
\* node.execFallback (lines 169, 173)
NewPipe(n, i) ==
  IF 0 < Attempts(n)
  THEN [pc |-> "exec", attempt |-> 0, execCalls |-> 1, execLog |-> << >>,
        onErrors |-> << >>, fallbackCalls |-> 0, fallbackArg |-> NoError,
        error |-> NoError, store |-> store]
  ELSE [pc |-> "failed", attempt |-> 0, execCalls |-> 0, execLog |-> << >>,
        onErrors |-> << >>, fallbackCalls |-> 0, fallbackArg |-> NoError,
        error |-> UnreachableError(i), store |-> store]

\* mutant of Returned: line 169 awaits node.exec without returning, the
\* loop goes on to its next iteration
ReturnedNoReturn(p) ==
  IF p.attempt + 1 < Attempts(node)
  THEN [p EXCEPT !.pc = "exec", !.attempt = @ + 1, !.execCalls = @ + 1,
                 !.execLog = Append(@, "resolved")]
  ELSE [p EXCEPT !.pc = "done", !.execLog = Append(@, "resolved")]

\* line 169 returned
Returned(p) == [p EXCEPT !.pc = "done", !.execLog = Append(@, "resolved")]

\* mutants of Caught: node.onError never called; execFallback never used
CaughtNoHook(n, i, p) ==
  LET err == ExecError(i, p.attempt)
      q == [p EXCEPT !.execLog = Append(@, "rejected")]
  IN IF p.attempt = Attempts(n) - 1
     THEN IF hasFallback[n]
          THEN [q EXCEPT !.pc = "fallback", !.fallbackCalls = @ + 1,
                         !.fallbackArg = err]
          ELSE [q EXCEPT !.pc = "failed", !.error = err]
     ELSE [q EXCEPT !.pc = "delay"]
CaughtNoFallback(n, i, p) ==
  LET err == ExecError(i, p.attempt)
      q == [p EXCEPT !.execLog = Append(@, "rejected")]
  IN IF p.attempt = Attempts(n) - 1
     THEN [q EXCEPT !.pc = "failed", !.error = err]
     ELSE [q EXCEPT !.pc = "delay",
                    !.onErrors = Append(@, <<p.attempt + 1, Attempts(n)>>)]

\* the catch block (lines 170-181) for a rejection of attempt p.attempt
\* mutant of Caught: onError is called for the last allowed attempt too
CaughtHookAlways(n, i, p) ==
  LET err == ExecError(i, p.attempt)
      q == [p EXCEPT !.execLog = Append(@, "rejected"),
                     !.onErrors = Append(@, <<p.attempt + 1, Attempts(n)>>)]
  IN IF p.attempt = Attempts(n) - 1
     THEN IF hasFallback[n]
          THEN [q EXCEPT !.pc = "fallback", !.fallbackCalls = @ + 1,
                         !.fallbackArg = err]
          ELSE [q EXCEPT !.pc = "failed", !.error = err]
     ELSE [q EXCEPT !.pc = "delay"]

Caught(n, i, p) ==
  LET err == ExecError(i, p.attempt)
      q == [p EXCEPT !.execLog = Append(@, "rejected")]
  IN IF p.attempt = Attempts(n) - 1
     THEN IF hasFallback[n]
          THEN [q EXCEPT !.pc = "fallback", !.fallbackCalls = @ + 1,
                         !.fallbackArg = err]
          ELSE [q EXCEPT !.pc = "failed", !.error = err]
     ELSE [q EXCEPT !.pc = "delay",
                    !.onErrors = Append(@, <<p.attempt + 1, Attempts(n)>>)]

\* the timer of line 180 fired: attempt++ and, inside the loop, exec again
Retried(n, i, p) ==
  IF p.attempt + 1 < Attempts(n)
  THEN [p EXCEPT !.pc = "exec", !.attempt = @ + 1, !.execCalls = @ + 1]
  ELSE [p EXCEPT !.pc = "failed", !.attempt = @ + 1, !.error = UnreachableError(i)]

\* ------------------------------------------------------------------ run
\* mutant of AllDone: one finished pipeline is enough
AnyDone(ps) == \E i \in DOMAIN ps : ps[i].pc = "done"

AllDone(ps) == \A i \in DOMAIN ps : ps[i].pc = "done"
Failed(ps) == {i \in DOMAIN ps : ps[i].pc = "failed"}
\* mutant of MinOf: the already rejected promises taken last first
MaxOf(S) == CHOOSE i \in S : \A j \in S : i >= j
MinOf(S) == CHOOSE i \in S : \A j \in S : i <= j

\* mutant of Joined: Promise.allSettled, fulfilled once nothing is in flight
JoinedAllSettled(ps, first) ==
  IF \A i \in DOMAIN ps : ps[i].pc \in {"done", "failed"}
  THEN [state |-> "fulfilled", error |-> NoError]
  ELSE [state |-> "pending", error |-> NoError]

\* mutant of Joined: Promise.race, settled by the first pipeline that is
JoinedAny(ps, first) ==
  IF Failed(ps) # {} THEN [state |-> "rejected", error |-> ps[first].error]
  ELSE IF AnyDone(ps) \/ ps = << >> THEN [state |-> "fulfilled", error |-> NoError]
  ELSE [state |-> "pending", error |-> NoError]

\* await Promise.all(execPromises) as it stands once the pipelines are ps:
\* rejected as soon as a pipeline is, fulfilled when all are, else pending
Joined(ps, first) ==
  IF Failed(ps) # {} THEN [state |-> "rejected", error |-> ps[first].error]
  ELSE IF AllDone(ps) THEN [state |-> "fulfilled", error |-> NoError]
  ELSE [state |-> "pending", error |-> NoError]

\* mutant of Driver: a rejected join is caught and post called all the same
DriverSwallow(j, items, results) ==
  /\ phase' = IF j.state = "pending" THEN "joining" ELSE "post"
  /\ outcome' = outcome
  /\ runError' = runError
  /\ postArgs' = IF j.state # "pending" THEN <<items, results, store>> ELSE postArgs
  /\ postCalls' = IF j.state # "pending" THEN postCalls + 1 ELSE postCalls

\* mutant of Driver: a rejected join is never noticed, run stays pending
DriverHangs(j, items, results) ==
  /\ phase' = IF j.state = "fulfilled" THEN "post" ELSE "joining"
  /\ outcome' = outcome
  /\ runError' = runError
  /\ postArgs' = IF j.state = "fulfilled" THEN <<items, results, store>> ELSE postArgs
  /\ postCalls' = IF j.state = "fulfilled" THEN postCalls + 1 ELSE postCalls

\* the driver's reaction (lines 225-226) to the join standing at j
Driver(j, items, results) ==
  /\ phase' = CASE j.state = "rejected" -> "done"
                [] j.state = "fulfilled" -> "post"
                [] OTHER -> "joining"
  /\ outcome' = IF j.state = "rejected" THEN "rejected" ELSE outcome
  /\ runError' = IF j.state = "rejected" THEN j.error ELSE runError
  /\ postArgs' = IF j.state = "fulfilled" THEN <<items, results, store>> ELSE postArgs
  /\ postCalls' = IF j.state = "fulfilled" THEN postCalls + 1 ELSE postCalls

\* the store after a method of node n has written into it: exec and
\* execFallback (lines 169, 173) and post (line 226) are handed the store
\* object itself and are taken to write into it when they succeed
Written(s, method, n) == s \cup {<<method, n>>}

\* the first rejected pipeline once the pipelines are ps (at most one
\* pipeline settles in a step)
FirstFailure(ps) ==
  IF firstFailed # 0 \/ Failed(ps) = {} THEN firstFailed
  ELSE CHOOSE i \in Failed(ps) : TRUE

\* mutant of Settle: a failure reaches run as soon as it happens, also while
\* the items are still being pulled
SettleEager(ps, i, results) ==
  IF phase = "joining" \/ (phase = "producing" /\ Failed(ps) # {})
  THEN Driver(Joined(ps, i), prepItems, results)
  ELSE UNCHANGED <<phase, outcome, runError, postArgs, postCalls>>

\* a pipeline of the cycle settled into ps while the driver is where it is
Settle(ps, i, results) ==
  IF phase = "joining"
  THEN Driver(Joined(ps, i), prepItems, results)
  ELSE UNCHANGED <<phase, outcome, runError, postArgs, postCalls>>

\* mutant of Enter: run works on a copy of the store it was called with
EnterWithCopy(n, s) ==
  /\ frames' = Append(frames, [node |-> n, store |-> "copy of store"])
  /\ action' = UNSET
  /\ pulls' = 0
  /\ pipes' = << >>
  /\ prepItems' = << >>
  /\ execResults' = << >>
  /\ postArgs' = << >>
  /\ postCalls' = 0
  /\ firstFailed' = 0
  /\ phase' = "producing"

\* mutant of Enter: the two lists are created once per traversal and
\* carried from cycle to cycle
EnterKeepsLists(n, s) ==
  /\ frames' = Append(frames, [node |-> n, store |-> s])
  /\ action' = UNSET
  /\ pulls' = 0
  /\ pipes' = << >>
  /\ prepItems' = prepItems
  /\ execResults' = execResults
  /\ postArgs' = << >>
  /\ postCalls' = 0
  /\ firstFailed' = 0
  /\ phase' = "producing"

\* run(n, s) up to its first await: fresh locals, node.prep, next()
Enter(n, s) ==
  /\ frames' = Append(frames, [node |-> n, store |-> s])
  /\ action' = UNSET
  /\ pulls' = 0
  /\ pipes' = << >>
  /\ prepItems' = << >>
  /\ execResults' = << >>
  /\ postArgs' = << >>
  /\ postCalls' = 0
  /\ firstFailed' = 0
  /\ phase' = "producing"

\* ----------------------------------------------------------------- Init
\* after construction: the nodes are instances of one node class, built
\* with the same constructor argument; no edge is registered yet
Init ==
  /\ \E arg \in ConfigInputs : given = [n \in Nodes |-> arg]
  /\ config = [n \in Nodes |-> MergeConfig(given[n])]
  /\ \E f \in BOOLEAN : hasFallback = [n \in Nodes |-> f]
  /\ edges = [n \in Nodes |-> NoEdges]
  /\ chained = NoNode
  /\ phase = "setup"
  /\ frames = << >>
  /\ pulls = 0
  /\ pipes = << >>
  /\ prepItems = << >>
  /\ execResults = << >>
  /\ postArgs = << >>
  /\ postCalls = 0
  /\ action = UNSET
  /\ outcome = "none"
  /\ runError = NoError
  /\ stored = {}
  /\ firstFailed = 0

\* -------------------------------------------------------------- actions
\* n.connect(k, t), or n.connect(t) for k = 'default'; the graph is wired
\* before run is called, as in every test and example of the repository
Connect(n, k, t) ==
  /\ phase = "setup"
  /\ edges' = connect(edges, n, k, t)
  /\ chained' = connectResult(n, k, t)
  /\ UNCHANGED <<given, config, hasFallback, phase, frames, pulls, pipes,
                 prepItems, execResults, postArgs, postCalls, action,
                 outcome, runError, stored, firstFailed>>

\* the caller's run(StartNode, store)
StartRun ==
  /\ phase = "setup"
  /\ Enter(StartNode, TheStore)
  /\ outcome' = "pending"
  /\ UNCHANGED <<graphVars, stored, runError>>

\* mutant of PrepYield: one pipeline at a time, the next item is pulled
\* when no pipeline is in flight
PrepYieldOneAtATime ==
  /\ phase = "producing"
  /\ pulls < MaxItems
  /\ \A k \in Launched : pipes[k].pc \in {"done", "failed"}
  /\ LET i == pulls + 1 IN
       /\ pulls' = i
       /\ prepItems' = Append(prepItems, Item(cycle, i))
       /\ pipes' = Append(pipes, NewPipe(node, i))
       /\ firstFailed' = FirstFailure(Append(pipes, NewPipe(node, i)))
  /\ UNCHANGED <<graphVars, stored, phase, frames, execResults, postArgs, postCalls,
                 action, outcome, runError>>

\* generator.next() resolved with an item: lines 213-222
PrepYield ==
  /\ phase = "producing"
  /\ pulls < MaxItems
  /\ LET i == pulls + 1 IN
       /\ pulls' = i
       /\ prepItems' = Append(prepItems, Item(cycle, i))
       /\ pipes' = Append(pipes, NewPipe(node, i))
       /\ firstFailed' = FirstFailure(Append(pipes, NewPipe(node, i)))
  /\ UNCHANGED <<graphVars, stored, phase, frames, execResults, postArgs, postCalls,
                 action, outcome, runError>>

\* mutant of PrepDone: when the join is rejected the store is reset to
\* what it was before the traversal
PrepDoneRollback ==
  /\ phase = "producing"
  /\ Driver(Joined(pipes, IF Failed(pipes) = {} THEN 0 ELSE MinOf(Failed(pipes))),
            prepItems, execResults)
  /\ stored' = IF Failed(pipes) # {} THEN {} ELSE stored
  /\ UNCHANGED <<graphVars, frames, pulls, pipes, prepItems, execResults,
                 action, firstFailed>>

\* mutant of PrepDone: a cycle without items skips post and ends the
\* traversal
PrepDoneSkipsEmpty ==
  /\ phase = "producing"
  /\ IF pulls = 0
     THEN /\ phase' = "done"
          /\ outcome' = "resolved"
          /\ UNCHANGED <<runError, postArgs, postCalls>>
     ELSE Driver(Joined(pipes, IF Failed(pipes) = {} THEN 0 ELSE MinOf(Failed(pipes))),
                 prepItems, execResults)
  /\ UNCHANGED <<graphVars, stored, frames, pulls, pipes, prepItems, execResults,
                 action, firstFailed>>

\* generator.next() resolved with done: line 211, then the join and, when
\* every pipeline is already through, the call of post
PrepDone ==
  /\ phase = "producing"
  /\ Driver(Joined(pipes, IF Failed(pipes) = {} THEN 0 ELSE MinOf(Failed(pipes))),
            prepItems, execResults)
  /\ UNCHANGED <<graphVars, stored, frames, pulls, pipes, prepItems, execResults,
                 action, firstFailed>>

\* mutant of PrepThrow: a failure of the pull is taken as the end of the
\* sequence
PrepThrowAsDone ==
  /\ phase = "producing"
  /\ Driver(Joined(pipes, IF Failed(pipes) = {} THEN 0 ELSE MinOf(Failed(pipes))),
            prepItems, execResults)
  /\ UNCHANGED <<graphVars, stored, frames, pulls, pipes, prepItems, execResults,
                 action, firstFailed>>

\* generator.next() rejected: run rejects, launched pipelines are left alone
PrepThrow ==
  /\ phase = "producing"
  /\ phase' = "done"
  /\ outcome' = "rejected"
  /\ runError' = PrepError
  /\ UNCHANGED <<graphVars, stored, frames, pulls, pipes, prepItems, execResults,
                 postArgs, postCalls, action, firstFailed>>

\* mutant of ExecResolve: the result is stored at the item's index, ahead
\* of the results of the items yielded after it
ExecResolveAtIndex(i) ==
  /\ i \in Launched
  /\ pipes[i].pc = "exec"
  /\ LET ps == [pipes EXCEPT ![i] = Returned(@)]
         before == SelectSeq(execResults, LAMBDA v : v.of.idx < i)
         after == SelectSeq(execResults, LAMBDA v : v.of.idx > i)
         rs == before \o <<ExecValue(prepItems[i])>> \o after
     IN /\ pipes' = ps
        /\ firstFailed' = FirstFailure(ps)
        /\ execResults' = rs
        /\ stored' = Written(stored, "pipeline", node)
        /\ Settle(ps, i, rs)
  /\ UNCHANGED <<graphVars, frames, pulls, prepItems, action>>

\* node.exec resolved: lines 169, 218
ExecResolve(i) ==
  /\ i \in Launched
  /\ pipes[i].pc = "exec"
  /\ LET ps == [pipes EXCEPT ![i] = Returned(@)]
         rs == Append(execResults, ExecValue(prepItems[i]))
     IN /\ pipes' = ps
        /\ firstFailed' = FirstFailure(ps)
        /\ execResults' = rs
        /\ stored' = Written(stored, "pipeline", node)
        /\ Settle(ps, i, rs)
  /\ UNCHANGED <<graphVars, frames, pulls, prepItems, action>>

\* mutant of ExecReject: the pipeline pushes a result for an attempt that
\* failed, before the retry wrapper has returned
ExecRejectPushes(i) ==
  /\ i \in Launched
  /\ pipes[i].pc = "exec"
  /\ LET ps == [pipes EXCEPT ![i] = Caught(node, i, @)]
         rs == Append(execResults, [of |-> prepItems[i], by |-> "none"])
     IN /\ pipes' = ps
        /\ firstFailed' = FirstFailure(ps)
        /\ execResults' = rs
        /\ Settle(ps, i, rs)
  /\ UNCHANGED <<graphVars, stored, frames, pulls, prepItems, action>>

\* node.exec rejected: lines 170-180
ExecReject(i) ==
  /\ i \in Launched
  /\ pipes[i].pc = "exec"
  /\ LET ps == [pipes EXCEPT ![i] = Caught(node, i, @)]
     IN /\ pipes' = ps
        /\ firstFailed' = FirstFailure(ps)
        /\ Settle(ps, i, execResults)
  /\ UNCHANGED <<graphVars, stored, frames, pulls, prepItems, execResults, action>>

\* mutant of RetryTimer: no retry once a pipeline of the cycle has failed
RetryTimerUnlessFailed(i) ==
  /\ i \in Launched
  /\ pipes[i].pc = "delay"
  /\ Failed(pipes) = {}
  /\ LET ps == [pipes EXCEPT ![i] = Retried(node, i, @)]
     IN /\ pipes' = ps
        /\ firstFailed' = FirstFailure(ps)
        /\ Settle(ps, i, execResults)
  /\ UNCHANGED <<graphVars, stored, frames, pulls, prepItems, execResults, action>>

\* the retry delay elapsed: line 180, then the next iteration
RetryTimer(i) ==
  /\ i \in Launched
  /\ pipes[i].pc = "delay"
  /\ LET ps == [pipes EXCEPT ![i] = Retried(node, i, @)]
     IN /\ pipes' = ps
        /\ firstFailed' = FirstFailure(ps)
        /\ Settle(ps, i, execResults)
  /\ UNCHANGED <<graphVars, stored, frames, pulls, prepItems, execResults, action>>

\* node.execFallback resolved: lines 173, 218
FallbackResolve(i) ==
  /\ i \in Launched
  /\ pipes[i].pc = "fallback"
  /\ LET ps == [pipes EXCEPT ![i].pc = "done"]
         rs == Append(execResults, FallbackValue(prepItems[i]))
     IN /\ pipes' = ps
        /\ firstFailed' = FirstFailure(ps)
        /\ execResults' = rs
        /\ stored' = Written(stored, "pipeline", node)
        /\ Settle(ps, i, rs)
  /\ UNCHANGED <<graphVars, frames, pulls, prepItems, action>>

\* mutant of FallbackReject: the fallback's failure is caught and exec is
\* given one more attempt
FallbackRejectRetried(i) ==
  /\ i \in Launched
  /\ pipes[i].pc = "fallback"
  /\ LET ps == IF pipes[i].error = NoError
               THEN [pipes EXCEPT ![i].pc = "exec", ![i].execCalls = @ + 1,
                                  ![i].error = FallbackError(i)]
               ELSE [pipes EXCEPT ![i].pc = "failed"]
     IN /\ pipes' = ps
        /\ firstFailed' = FirstFailure(ps)
        /\ Settle(ps, i, execResults)
  /\ UNCHANGED <<graphVars, stored, frames, pulls, prepItems, execResults, action>>

\* node.execFallback rejected: line 173 throws out of the wrapper
FallbackReject(i) ==
  /\ i \in Launched
  /\ pipes[i].pc = "fallback"
  /\ LET ps == [pipes EXCEPT ![i].pc = "failed", ![i].error = FallbackError(i)]
     IN /\ pipes' = ps
        /\ firstFailed' = FirstFailure(ps)
        /\ Settle(ps, i, execResults)
  /\ UNCHANGED <<graphVars, stored, frames, pulls, prepItems, execResults, action>>

\* mutant of PostResolve: post is called a second time for the action to
\* route on
PostResolveCalledAgain(a) ==
  /\ phase = "post"
  /\ phase' = IF postCalls < 2 THEN "post" ELSE "route"
  /\ postCalls' = IF postCalls < 2 THEN postCalls + 1 ELSE postCalls
  /\ action' = IF postCalls < 2 THEN action ELSE a
  /\ stored' = Written(stored, "post", node)
  /\ UNCHANGED <<graphVars, frames, pulls, pipes, prepItems, execResults,
                 postArgs, outcome, runError, firstFailed>>

\* node.post resolved with a: the promise awaited at line 226 is settled
PostResolve(a) ==
  /\ phase = "post"
  /\ phase' = "route"
  /\ action' = a
  /\ stored' = Written(stored, "post", node)
  /\ UNCHANGED <<graphVars, frames, pulls, pipes, prepItems, execResults,
                 postArgs, postCalls, outcome, runError, firstFailed>>

\* mutant of Route: run gives up, resolving, after its second cycle
RouteDepthLimited ==
  /\ phase = "route"
  /\ IF Target(node, action) # NoNode /\ cycle < 2
     THEN /\ cycle < MaxCycles
          /\ Enter(Target(node, action), store)
          /\ UNCHANGED <<outcome, runError>>
     ELSE /\ phase' = "done"
          /\ outcome' = "resolved"
          /\ UNCHANGED <<frames, pulls, pipes, prepItems, execResults,
                         postArgs, postCalls, action, runError,
                         firstFailed>>
  /\ UNCHANGED <<graphVars, stored>>

\* mutant of Route: a dead end is an error, run rejects
RouteDeadEndThrows ==
  /\ phase = "route"
  /\ IF Target(node, action) # NoNode
     THEN /\ cycle < MaxCycles
          /\ Enter(Target(node, action), store)
          /\ UNCHANGED <<outcome, runError>>
     ELSE /\ phase' = "done"
          /\ outcome' = IF action = KILL THEN "resolved" ELSE "rejected"
          /\ runError' = IF action = KILL THEN runError ELSE PostError
          /\ UNCHANGED <<frames, pulls, pipes, prepItems, execResults,
                         postArgs, postCalls, action, firstFailed>>
  /\ UNCHANGED <<graphVars, stored>>

\* run resumes with action: lines 226-231, into run(nextNode, store) up to
\* its first await, or out of every pending run call
Route ==
  /\ phase = "route"
  /\ IF Target(node, action) # NoNode
     THEN /\ cycle < MaxCycles
          /\ Enter(Target(node, action), store)
          /\ UNCHANGED <<outcome, runError>>
     ELSE /\ phase' = "done"
          /\ outcome' = "resolved"
          /\ UNCHANGED <<frames, pulls, pipes, prepItems, execResults,
                         postArgs, postCalls, action, runError,
                         firstFailed>>
  /\ UNCHANGED <<graphVars, stored>>

\* mutant of PostThrow: a failure of post is caught and the default edge
\* followed
PostThrowFollowsDefault ==
  /\ phase = "post"
  /\ phase' = "route"
  /\ action' = UNDEFINED
  /\ UNCHANGED <<graphVars, stored, frames, pulls, pipes, prepItems, execResults,
                 postArgs, postCalls, outcome, runError, firstFailed>>

\* node.post rejected: line 226 throws
PostThrow ==
  /\ phase = "post"
  /\ phase' = "done"
  /\ outcome' = "rejected"
  /\ runError' = PostError
  /\ UNCHANGED <<graphVars, stored, frames, pulls, pipes, prepItems, execResults,
                 postArgs, postCalls, action, firstFailed>>

Next ==
  \/ \E n \in Wired \cup ({chained} \ {NoNode}), c \in ConnectCalls :
       Connect(n, c[1], c[2])
  \/ StartRun
  \/ PrepYield
  \/ PrepDone
  \/ PrepThrow
  \/ \E i \in 1..MaxItems : ExecResolve(i)
  \/ \E i \in 1..MaxItems : ExecReject(i)
  \/ \E i \in 1..MaxItems : RetryTimer(i)
  \/ \E i \in 1..MaxItems : FallbackResolve(i)
  \/ \E i \in 1..MaxItems : FallbackReject(i)
  \/ \E a \in Actions : PostResolve(a)
  \/ Route
  \/ PostThrow

Spec == Init /\ [][Next]_vars

\* a step of some launched pipeline
PipelineStep ==
  \E i \in 1..MaxItems :
    \/ ExecResolve(i)
    \/ ExecReject(i)
    \/ RetryTimer(i)
    \/ FallbackResolve(i)
    \/ FallbackReject(i)

\* what is assumed of the node's methods and of the event loop for the
\* engine to make progress: a prep that yields finitely many items comes to
\* its end (or throws); pending exec and execFallback calls and retry
\* timers do not all stay pending for ever; a post call settles and the
\* continuation of the settled await is run
Fairness ==
  /\ WF_vars(PrepDone \/ PrepThrow)
  /\ WF_vars(PipelineStep)
  /\ WF_vars((\E a \in Actions : PostResolve(a)) \/ PostThrow \/ Route)

FairSpec == Init /\ [][Next]_vars /\ Fairness

\* ======================================================================
\* Properties
\* ======================================================================
Entries(seq, item) == SelectSeq(seq, LAMBDA v : v.of = item)
InFlight(p) == p.pc \in {"exec", "delay", "fallback"}

\* the wrapper rethrew exec's last failure (line 175)
Unrecovered(i) ==
  /\ i \in DOMAIN pipes
  /\ pipes[i].pc = "failed"
  /\ pipes[i].error.kind = "exec"

\* exec was called, every call failed, and the wrapper is through the loop
AlwaysFailed(p) ==
  /\ Len(p.execLog) >= 1
  /\ \A q \in DOMAIN p.execLog : p.execLog[q] = "rejected"
  /\ p.pc \notin {"exec", "delay"}

\* exec failed exactly k times and then succeeded
FailedThenSucceeded(p, k) ==
  /\ Len(p.execLog) = k + 1
  /\ p.execLog[k + 1] = "resolved"
  /\ \A q \in 1..k : p.execLog[q] = "rejected"

\* C1: once post has been invoked in a cycle, every pipeline launched in
\* that cycle (one per pulled item) has finished and recorded its result:
\* no exec, retry delay or execFallback of the cycle is pending.
C1_JoinBarrier ==
  postCalls > 0 =>
    /\ Len(pipes) = pulls
    /\ \A i \in DOMAIN pipes : pipes[i].pc = "done" /\ ~InFlight(pipes[i])
    /\ Len(execResults) = Len(pipes)

C1_Witness ==
  /\ phase = "post"
  /\ Len(pipes) = 2
  /\ Len(pipes[1].execLog) = 3
  /\ pipes[2].fallbackCalls = 1

\* C2: in a cycle where some pipeline failed unrecovered (exec failed on the
\* last allowed attempt, no execFallback), post is not invoked: it has not
\* been called and the driver is not in it.
C2_NoPartialAggregate ==
  (\E i \in DOMAIN pipes : Unrecovered(i)) =>
    /\ postCalls = 0
    /\ postArgs = << >>
    /\ phase # "post"

C2_Witness ==
  /\ outcome = "rejected"
  /\ \E i \in DOMAIN pipes : Unrecovered(i)
  /\ Len(execResults) = 1

\* C3: once exec has failed on every attempt for some item of a node without
\* execFallback, run never resolves and stands rejected as soon as the
\* driver is past producing, and run is not called on any further node: no
\* node behind the failing node's edges gets its prep, exec or post invoked.
C3_NoDegradeAborts ==
  /\ []((\E i \in DOMAIN pipes : Unrecovered(i) /\ AlwaysFailed(pipes[i]))
          => /\ outcome # "resolved"
             /\ phase # "producing" => outcome = "rejected")
  /\ [][(\E i \in DOMAIN pipes : Unrecovered(i) /\ AlwaysFailed(pipes[i]))
          => frames' = frames]_vars

C3_Witness ==
  /\ outcome = "rejected"
  /\ runError.kind = "exec"
  /\ \E i \in DOMAIN pipes : Unrecovered(i) /\ pipes[i].execCalls = 3
  /\ cycle = 1
  /\ edges[node][DefaultKey] = "n2"

\* C4: an item whose exec failed exactly k < maxRetries times and then
\* succeeded has had exec invoked exactly k+1 times, onError exactly k
\* times, execFallback never, and its one entry in execResults is the
\* value exec resolved to.
C4_RetryInvariant ==
  \A i \in DOMAIN pipes : \A k \in 0..(config[node].maxRetries - 1) :
    FailedThenSucceeded(pipes[i], k) =>
      /\ pipes[i].execCalls = k + 1
      /\ Len(pipes[i].onErrors) = k
      /\ pipes[i].fallbackCalls = 0
      /\ Entries(execResults, prepItems[i]) = <<ExecValue(prepItems[i])>>

C4_Witness ==
  \E i \in DOMAIN pipes :
    /\ FailedThenSucceeded(pipes[i], 2)
    /\ phase = "post"
    /\ postArgs[2] = <<ExecValue(prepItems[i])>>

\* C5: on a node that defines execFallback, an item whose exec was tried and
\* failed on every attempt has had exec invoked exactly maxRetries times and
\* execFallback exactly once; exec's error is not rethrown; and once
\* execFallback has returned, its value is the item's one entry in
\* execResults, post receives it, and run has not rejected over the item.
C5_DegradeInvariant ==
  \A i \in DOMAIN pipes :
    (hasFallback[node] /\ AlwaysFailed(pipes[i])) =>
      /\ pipes[i].execCalls = config[node].maxRetries
      /\ pipes[i].fallbackCalls = 1
      /\ pipes[i].error.kind # "exec"
      /\ pipes[i].pc = "done" =>
           /\ Entries(execResults, prepItems[i]) = <<FallbackValue(prepItems[i])>>
           /\ postCalls > 0 => Entries(postArgs[2], prepItems[i])
                                 = <<FallbackValue(prepItems[i])>>
           /\ ~(outcome = "rejected" /\ runError.idx = i)

C5_Witness ==
  /\ outcome = "resolved"
  /\ Len(pipes) = 1
  /\ AlwaysFailed(pipes[1])
  /\ pipes[1].execCalls = 3
  /\ postArgs[2] = <<FallbackValue(prepItems[1])>>

\* C6: exec is invoked at most maxRetries times for an item, and not again
\* once one of its invocations has succeeded or execFallback has been
\* invoked for the item.
C6_BoundedAttempts ==
  \A i \in DOMAIN pipes :
    /\ pipes[i].execCalls <= config[node].maxRetries
    /\ \A q \in DOMAIN pipes[i].execLog :
         pipes[i].execLog[q] = "resolved" => pipes[i].execCalls = q
    /\ pipes[i].fallbackCalls > 0 =>
         /\ pipes[i].execCalls = Len(pipes[i].execLog)
         /\ pipes[i].pc \notin {"exec", "delay"}

C6_Witness ==
  \E i \in DOMAIN pipes :
    /\ pipes[i].execCalls = 3
    /\ config[node].maxRetries = 3
    /\ pipes[i].fallbackCalls = 1
    /\ pipes[i].pc = "done"

\* C7: when post has returned KILL, run resumes by resolving without calling
\* run on any node, whatever edges the node has; and a resolved run stays
\* resolved and runs nothing further.
C7_KillStops ==
  /\ [][(phase = "route" /\ action = KILL)
          => (outcome' = "resolved" /\ phase' = "done" /\ frames' = frames)]_vars
  /\ [][outcome = "resolved" => (outcome' = "resolved" /\ frames' = frames)]_vars

C7_Witness ==
  /\ outcome = "resolved"
  /\ action = KILL
  /\ edges[node][KILL] = "n2"
  /\ edges[node][DefaultKey] = "n1"
  /\ edges[node]["a"] = "n2"

\* C8: when post has returned undefined or null on a node with a default
\* edge, run resumes by calling run on the default edge's target with the
\* same store, and on nothing else.
C8_DefaultEdge ==
  [][(/\ phase = "route"
      /\ action \in {UNDEFINED, NULL}
      /\ edges[node][DefaultKey] # NoNode)
       => frames' = Append(frames, [node |-> edges[node][DefaultKey],
                                    store |-> frames[cycle].store])]_vars

C8_Witness ==
  /\ phase = "route"
  /\ cycle = 1
  /\ action = NULL
  /\ edges[node][DefaultKey] = "n2"
  /\ edges[node]["a"] = "n1"

\* C9: when post has returned a string action with a registered edge, run
\* resumes by calling run on exactly that edge's target, not on the target
\* of another edge of the node.
C9_NamedEdge ==
  [][(/\ phase = "route"
      /\ action \in StringActions
      /\ edges[node][action] # NoNode)
       => (/\ Len(frames') = Len(frames) + 1
           /\ SubSeq(frames', 1, Len(frames)) = frames
           /\ frames'[Len(frames')].node = edges[node][action])]_vars

C9_Witness ==
  /\ phase = "route"
  /\ cycle = 1
  /\ action = "a"
  /\ edges[node]["a"] = "n2"
  /\ edges[node][DefaultKey] = "n1"
  /\ edges[node][KILL] = "n2"

C11_NoMatchStops ==
  [][(/\ phase = "route"
      /\ action \in StringActions
      /\ edges[node][action] = NoNode)
       => frames' = frames]_vars

\* C12: when post has returned an action other than KILL for which the node
\* has no registered edge, and the node has no default edge either, run
\* resolves (it does not reject) and calls no further node.
C12_DeadEndResolves ==
  [][(/\ phase = "route"
      /\ action \in Actions \ {KILL}
      /\ (action \in EdgeKeys => edges[node][action] = NoNode)
      /\ edges[node][DefaultKey] = NoNode)
       => (/\ outcome' = "resolved"
           /\ phase' = "done"
           /\ frames' = frames)]_vars

C12_Witness ==
  /\ outcome = "resolved"
  /\ cycle = 1
  /\ action = "a"
  /\ edges[node]["a"] = NoNode
  /\ edges[node][DefaultKey] = NoNode
  /\ edges[node][KILL] = "n2"

\* C13: when post is called in a cycle whose prep yielded N items, it
\* receives prepItems and execResults of length exactly N; each yielded
\* item is exactly once in prepItems and has exactly one result in
\* execResults.
C13_OnePerItem ==
  postCalls > 0 =>
    /\ Len(postArgs[1]) = pulls
    /\ Len(postArgs[2]) = pulls
    /\ \A i \in 1..pulls :
         /\ Cardinality({k \in DOMAIN postArgs[1] :
                           postArgs[1][k] = Item(cycle, i)}) = 1
         /\ Len(Entries(postArgs[2], Item(cycle, i))) = 1

C13_Witness ==
  /\ postCalls > 0
  /\ pulls = MaxItems
  /\ Len(postArgs[2]) = MaxItems
  /\ postArgs[2][1].of = Item(cycle, MaxItems)

\* C14: when post is invoked, prepItems and execResults are aligned: for
\* every index k, execResults[k] is the result of processing prepItems[k].
\* (prepItems is filled when a pipeline is launched, execResults when it
\* completes, lines 215 and 218: the statement fails when a later item's
\* pipeline completes first.)
C14_Aligned ==
  postCalls > 0 =>
    \A k \in DOMAIN postArgs[2] :
      k \in DOMAIN postArgs[1] /\ postArgs[2][k].of = postArgs[1][k]

\* C15: the execResults passed to post are in the order in which prep
\* yielded the items: the i-th result belongs to the i-th yielded item.
\* (Fails as C14 does: execResults is in completion order.)
C15_YieldOrder ==
  postCalls > 0 =>
    \A i \in 1..pulls :
      i \in DOMAIN postArgs[2] /\ postArgs[2][i].of = Item(cycle, i)

\* C16: streaming fan-out.  The exec call for a yielded item is made when
\* the item is yielded, without waiting for prep to yield further items or
\* to finish: at any time every item pulled so far has its pipeline, and
\* (with maxRetries > 0) that pipeline has called exec.  The witness is an
\* execution in which exec of item 1 has completed while prep has not yet
\* produced item 2.
C16_StreamingFanOut ==
  phase \in {"producing", "joining", "post", "route"} =>
    /\ Launched = 1..pulls
    /\ \A i \in 1..pulls :
         0 < config[node].maxRetries => pipes[i].execCalls >= 1

C16_Witness ==
  /\ phase = "producing"
  /\ pulls = 1
  /\ pulls < MaxItems
  /\ pipes[1].pc = "done"
  /\ execResults = <<ExecValue(Item(cycle, 1))>>

\* C17 as stated: in a cycle whose prep yielded exactly one item, exec is
\* invoked exactly once; stated here of the cycles that get as far as
\* post.  (Fails when the invocation rejects and the retry policy invokes
\* exec again.)
C17_ExecOnce ==
  (postCalls > 0 /\ pulls = 1) => pipes[1].execCalls = 1

\* C17 as amended: in a cycle whose prep yielded exactly one item, one
\* pipeline is launched; exec is invoked exactly once when that invocation
\* resolves, and is invoked again only after a rejected invocation, at most
\* maxRetries times in all (never when maxRetries <= 0).
C17_OnePipeline ==
  (phase \in {"joining", "post", "route", "done"} /\ pulls = 1) =>
    /\ Launched = {1}
    /\ pipes[1].execCalls <= IF config[node].maxRetries > 0
                             THEN config[node].maxRetries ELSE 0
    /\ (pipes[1].execLog # << >> /\ pipes[1].execLog[1] = "resolved")
         => pipes[1].execCalls = 1
    /\ pipes[1].execCalls = Len(pipes[1].execLog)
                              + (IF pipes[1].pc = "exec" THEN 1 ELSE 0)
    /\ \A k \in 1..Len(pipes[1].execLog) - 1 : pipes[1].execLog[k] = "rejected"

C17_Witness ==
  /\ phase = "post"
  /\ pulls = 1
  /\ pipes[1].execCalls = 3
  /\ pipes[1].execLog = <<"rejected", "rejected", "resolved">>

PipelineErrors == {"exec", "execFallback", "Unreachable"}

\* C18 as stated: when run has rejected because of pipeline failures of a
\* cycle, the error is that of the pipeline of the cycle that failed first
\* in time.  (Fails when two pipelines fail while prep is still producing,
\* the later-yielded one first: Promise.all, called after the loop, takes
\* the already rejected promises in launch order.)
C18_FirstInTime ==
  (outcome = "rejected" /\ runError.kind \in PipelineErrors)
    => (firstFailed \in Launched /\ runError = pipes[firstFailed].error)

\* C18 as amended: when run rejects because of pipeline failures of a
\* cycle, the error is that of a failed pipeline of the cycle: the
\* earliest-yielded of the pipelines that have already failed when prep
\* finishes, if there is one, and otherwise the pipeline that fails first
\* in time after prep has finished.
C18_JoinOrder ==
  [][(/\ outcome # "rejected"
      /\ outcome' = "rejected"
      /\ runError'.kind \in PipelineErrors)
       => IF phase = "producing"
          THEN \E i \in Failed(pipes) :
                 /\ \A j \in Failed(pipes) : i <= j
                 /\ runError' = pipes[i].error
          ELSE /\ Failed(pipes) = {}
               /\ firstFailed' \in Failed(pipes')
               /\ runError' = pipes'[firstFailed'].error]_vars

C18_Witness ==
  /\ outcome = "rejected"
  /\ Failed(pipes) = {1, 2}
  /\ firstFailed = 2
  /\ runError = pipes[1].error
  /\ runError.kind = "exec"

\* C19: every prep, exec, execFallback and post call of every node of a
\* traversal receives the store that was passed to run: each run call (and
\* the prep call it makes) has it, each pipeline hands it to exec and
\* execFallback, and post receives it.
C19_SameStore ==
  /\ \A k \in 1..Len(frames) : frames[k].store = TheStore
  /\ \A i \in Launched : pipes[i].store = TheStore
  /\ postCalls > 0 => postArgs[3] = TheStore

C19_Witness ==
  /\ cycle = 2
  /\ frames[1].node # frames[2].node
  /\ postCalls > 0
  /\ postArgs[3] = TheStore
  /\ \E i \in Launched : pipes[i].fallbackCalls > 0 /\ pipes[i].store = TheStore

\* C21: a node connected to itself under a named action is run again each
\* time its post returns that action, and the traversal ends, run
\* resolving, once post returns KILL or an action that resolves to no edge:
\* after n returns of the loop action in a row the node has run n + 1
\* cycles.  Stated of each return of post on such a node without a default
\* edge: the loop action adds one cycle of the same node, anything else
\* adds none and resolves run.
C21_SelfLoop ==
  [][(/\ phase = "route"
      /\ edges[node]["a"] = node
      /\ edges[node][DefaultKey] = NoNode
      /\ \A k \in 1..cycle : frames[k].node = node)
       => IF action = "a"
          THEN /\ frames' = Append(frames, [node |-> node, store |-> store])
               /\ outcome' = "pending"
          ELSE /\ frames' = frames
               /\ outcome' = "resolved"]_vars

C21_Witness ==
  /\ outcome = "resolved"
  /\ cycle = MaxCycles
  /\ \A k \in 1..cycle : frames[k].node = StartNode
  /\ edges[StartNode]["a"] = StartNode
  /\ edges[StartNode][DefaultKey] = NoNode
  /\ action = UNDEFINED

\* C22: a connect call on a node, in whatever state the edge tables are,
\* sets that node's edge for the call's key (the default key for
\* connect(target)) to the call's target, whatever the key's earlier target
\* was, leaves the edges under the node's other keys and the edges of the
\* other nodes as they were, and returns the node it was called on.
C22_Connect ==
  phase = "setup" =>
    \A n \in Nodes, c \in ConnectCalls :
      ENABLED (/\ Connect(n, c[1], c[2])
               /\ edges'[n][c[1]] = c[2]
               /\ \A k \in EdgeKeys \ {c[1]} : edges'[n][k] = edges[n][k]
               /\ \A m \in Nodes \ {n} : edges'[m] = edges[m]
               /\ chained' = n)

\* the default edge is about to be replaced, after a chained connect has
\* set a named edge next to it
C22_Witness ==
  /\ phase = "setup"
  /\ chained = StartNode
  /\ edges[StartNode][DefaultKey] = "n1"
  /\ edges[StartNode]["a"] = "n2"
  /\ ENABLED (/\ Connect(StartNode, DefaultKey, "n2")
              /\ edges'[StartNode][DefaultKey] = "n2"
              /\ edges'[StartNode]["a"] = "n2")

\* C23: a node's config is the defaults (maxRetries 3, retryDelay 2000,
\* timeout 60000) overridden field by field by the constructor's argument:
\* a field that was passed has the passed value, a field that was not has
\* its default; and it stays so throughout the run.
C23_ConfigMerge ==
  \A n \in Nodes :
    /\ DOMAIN config[n] = {"maxRetries", "retryDelay", "timeout"}
    /\ config[n].maxRetries =
         IF "maxRetries" \in DOMAIN given[n] THEN given[n].maxRetries ELSE 3
    /\ config[n].retryDelay =
         IF "retryDelay" \in DOMAIN given[n] THEN given[n].retryDelay ELSE 2000
    /\ config[n].timeout =
         IF "timeout" \in DOMAIN given[n] THEN given[n].timeout ELSE 60000

C23_Witness ==
  /\ phase = "done"
  /\ DOMAIN given[StartNode] = {"maxRetries", "retryDelay"}
  /\ config[StartNode] = [maxRetries |-> 0, retryDelay |-> -1, timeout |-> 60000]

CanGoOn ==
  \A i \in Launched :
    /\ pipes[i].pc = "exec" => ENABLED ExecResolve(i) /\ ENABLED ExecReject(i)
    /\ pipes[i].pc = "delay" => ENABLED RetryTimer(i)
    /\ pipes[i].pc = "fallback"
         => ENABLED FallbackResolve(i) /\ ENABLED FallbackReject(i)

\* C25: a pipeline failure does not cancel the sibling pipelines of the
\* cycle: whatever has become of the other pipelines and of run, a pipeline
\* in flight can go on with what it is doing (exec can resolve or reject,
\* the retry timer can fire, execFallback can resolve or reject), also
\* after run has rejected.
C25_NoCancellation == []CanGoOn

\* run has rejected with pipeline 1's error; pipeline 2, still waiting to
\* retry then, has since exhausted its attempts and is inside execFallback
C25_Witness ==
  /\ outcome = "rejected"
  /\ Launched = {1, 2}
  /\ runError = pipes[1].error
  /\ firstFailed = 1
  /\ pipes[2].pc = "fallback"
  /\ pipes[2].execCalls = 3

Rejections(p) == Len(SelectSeq(p.execLog, LAMBDA v : v = "rejected"))

\* C26: each failed exec attempt other than the last allowed one is followed
\* by exactly one onError call, made with the 1-based number of the failed
\* attempt and maxRetries, before the retry delay and so before the next
\* exec attempt; the last allowed attempt's failure is followed by none, so
\* that an exec that fails every time has caused exactly maxRetries - 1
\* onError calls, numbered 1..maxRetries - 1.
C26_OnErrorCalls ==
  \A i \in Launched :
    LET p == pipes[i]
        m == config[node].maxRetries
    IN /\ Len(p.onErrors) = IF Rejections(p) >= m /\ m >= 1
                            THEN m - 1 ELSE Rejections(p)
       /\ \A k \in DOMAIN p.onErrors : p.onErrors[k] = <<k, m>>
       /\ p.pc = "delay" => Len(p.onErrors) = p.execCalls
       /\ p.pc = "exec" => Len(p.onErrors) = p.execCalls - 1
       /\ (p.pc \in {"fallback", "failed"} /\ m >= 1)
            => p.onErrors = [k \in 1..(m - 1) |-> <<k, m>>]

C26_Witness ==
  /\ 1 \in Launched
  /\ pipes[1].pc = "failed"
  /\ pipes[1].error = ExecError(1, 2)
  /\ pipes[1].execLog = <<"rejected", "rejected", "rejected">>
  /\ pipes[1].onErrors = <<<<1, 3>>, <<2, 3>>>>

\* C27: when execFallback itself has failed for an item, the failure stands
\* like an unrecovered exec failure: the pipeline is failed with it and has
\* no result, exec was invoked maxRetries times and execFallback once and
\* neither is invoked again, post is not invoked in that cycle, run ends
\* rejected, and with it when no other pipeline of the cycle failed.
C27_FallbackFailure ==
  \A i \in Launched :
    pipes[i].error.kind = "execFallback" =>
      /\ pipes[i].pc = "failed"
      /\ pipes[i].error = FallbackError(i)
      /\ pipes[i].fallbackCalls = 1
      /\ pipes[i].execCalls = config[node].maxRetries
      /\ Entries(execResults, prepItems[i]) = << >>
      /\ postCalls = 0
      /\ phase \in {"producing", "joining", "done"}
      /\ phase = "done" => outcome = "rejected"
      /\ (phase = "done" /\ Failed(pipes) = {i} /\ runError.kind \in PipelineErrors)
           => runError = FallbackError(i)

C27_Witness ==
  /\ phase = "done"
  /\ outcome = "rejected"
  /\ Launched = {1, 2}
  /\ pipes[1].pc = "done"
  /\ pipes[2].error = FallbackError(2)
  /\ runError = FallbackError(2)
  /\ postCalls = 0

\* C28: nothing caps the number of pipelines in flight at a time: while
\* prep is producing, the next item can be pulled and its pipeline started
\* at once whatever the number of pipelines already in flight, none of
\* which is touched; so when no exec call completes before all are
\* started, all N are in flight together (the witness, N = MaxItems).
C28_NoConcurrencyCap ==
  (phase = "producing" /\ pulls < MaxItems) =>
    ENABLED (/\ PrepYield
             /\ \A i \in Launched : pipes'[i] = pipes[i]
             /\ 0 < config[node].maxRetries
                  => InFlight(pipes'[pulls + 1]) /\ pipes'[pulls + 1].execCalls = 1)

C28_Witness ==
  /\ pulls = MaxItems
  /\ Launched = 1..MaxItems
  /\ \A i \in Launched : pipes[i].pc = "exec" /\ pipes[i].execLog = << >>

\* C29 as stated: run settles only because post returned KILL, because no
\* target resolved after post, or because a failure propagated; so a node
\* whose default edge points to itself and whose post neither returns KILL
\* nor fails is re-run for ever: where the start node's default edge is the
\* node itself, run resolves only when a post has returned KILL.  (Fails
\* when the node also has a named edge to another node and post returns
\* that action: the other node is a dead end and run resolves.)
C29_DefaultSelfLoopForever ==
  (outcome = "resolved" /\ edges[StartNode][DefaultKey] = StartNode)
    => action = KILL

\* C29 as amended: run resolves only when post returned KILL or returned an
\* action for which neither an edge nor a default edge is registered, and
\* rejects only with a failure of prep, of a pipeline or of post; a node
\* whose default edge points to itself is run again after each post that
\* returns neither KILL nor an action with an edge to another node, and a
\* traversal that stays on it resolves only by KILL.
C29_SettlesOnlyAtBoundary ==
  /\ outcome = "resolved" =>
       /\ phase = "done" /\ postCalls > 0
       /\ \/ action = KILL
          \/ /\ action \in Actions \ {KILL}
             /\ action \in EdgeKeys => edges[node][action] = NoNode
             /\ edges[node][DefaultKey] = NoNode
  /\ outcome = "rejected" =>
       /\ phase = "done"
       /\ runError.kind \in PipelineErrors \cup {"prep", "post"}
  /\ (/\ outcome = "resolved"
      /\ edges[StartNode][DefaultKey] = StartNode
      /\ \A k \in 1..cycle : frames[k].node = StartNode) => action = KILL
  /\ (/\ phase = "route"
      /\ cycle < MaxCycles
      /\ edges[node][DefaultKey] = node
      /\ action # KILL
      /\ action \in EdgeKeys => edges[node][action] \in {NoNode, node})
       => ENABLED (/\ Route
                   /\ frames' = Append(frames, [node |-> node, store |-> store])
                   /\ outcome' = "pending")

C29_Witness ==
  /\ phase = "route"
  /\ outcome = "pending"
  /\ cycle = MaxCycles
  /\ \A k \in 1..cycle : frames[k].node = StartNode
  /\ edges[StartNode][DefaultKey] = StartNode
  /\ edges[StartNode]["a"] = NoNode
  /\ action = "a"

\* a step that a settling call or a run continuation takes
Settling ==
  \/ PrepDone
  \/ PrepThrow
  \/ PipelineStep
  \/ \E a \in Actions : PostResolve(a)
  \/ PostThrow
  \/ Route

\* how far a pipeline has got: every pipeline step adds to it
PipeRank(p) ==
  p.execCalls + Len(p.execLog) + Len(p.onErrors) + p.fallbackCalls
    + (IF p.pc \in {"done", "failed"} THEN 1 ELSE 0)

RECURSIVE SumRanks(_)
SumRanks(ps) == IF ps = << >> THEN 0 ELSE PipeRank(Head(ps)) + SumRanks(Tail(ps))

PhaseRank ==
  CASE phase = "producing" -> 0
    [] phase = "joining" -> 1
    [] phase = "post" -> 2
    [] phase = "route" -> 3
    [] OTHER -> 4

\* more than a cycle can add to the rank: 4 for the phase, 1 for each pull
\* and at most 3 + 3 + 2 + 1 + 1 for each pipeline
CycleWeight == 5 + 11 * MaxItems

\* how far the traversal has got
Rank == cycle * CycleWeight + PhaseRank + pulls + SumRanks(pipes)

\* C30: if every prep yields finitely many items, every exec, execFallback
\* and post call settles and the path followed through the edge tables is
\* finite, run settles.  As a safety property: while run is pending, a
\* step of a settling call or of a run continuation is possible (or the
\* path is longer than the MaxCycles cycles followed here), and every step
\* of a started run takes the traversal strictly further in a rank that is
\* bounded, so that no run goes on for ever.
C30_RunSettles ==
  /\ [](outcome = "pending"
          => \/ ENABLED Settling
             \/ phase = "route" /\ cycle = MaxCycles)
  /\ [](Rank <= (MaxCycles + 1) * CycleWeight)
  /\ [][phase # "setup" => Rank' > Rank]_vars

\* C30 as a liveness property, under the fairness that says that calls
\* settle: a pending run leads to a resolved or rejected one, or to a path
\* longer than MaxCycles.
C30_RunSettlesEventually ==
  (outcome = "pending")
    ~> (\/ outcome \in {"resolved", "rejected"}
        \/ phase = "route" /\ cycle = MaxCycles /\ ~ENABLED Route)

C30_Witness ==
  /\ outcome = "resolved"
  /\ cycle = 2
  /\ postCalls > 0
  /\ Len(postArgs[2]) = MaxItems
  /\ \E i \in Launched : pipes[i].fallbackCalls > 0

\* C31: the engine never rolls the store back: what the completed post
\* calls of the earlier nodes of the traversal and the completed pipelines
\* of the current cycle have written is in the store in every state, also
\* after the traversal has aborted with a failure.
C31_NoRollback ==
  /\ \A k \in 1..(cycle - 1) : <<"post", frames[k].node>> \in stored
  /\ \A i \in Launched : pipes[i].pc = "done" => <<"pipeline", node>> \in stored
  /\ action # UNSET => <<"post", node>> \in stored

C31_Witness ==
  /\ outcome = "rejected"
  /\ cycle = 2
  /\ frames[1].node # frames[2].node
  /\ Launched = {1, 2}
  /\ runError = pipes[2].error
  /\ runError.kind = "exec"
  /\ pipes[1].pc = "done"
  /\ {<<"post", frames[1].node>>, <<"pipeline", frames[2].node>>} \subseteq stored

\* C32: within a cycle (one run call: prep is invoked once, on entering it)
\* post is invoked at most once, the item sequence is not pulled again
\* after it reported exhaustion, and the phases produce, join, aggregate,
\* route follow each other in that order, none being entered twice.
C32_PhaseOrder ==
  /\ [](postCalls <= 1)
  /\ [](phase = "producing" => postCalls = 0)
  /\ [][(frames' = frames /\ phase # "setup") =>
          /\ PhaseRank' >= PhaseRank
          /\ postCalls' >= postCalls
          /\ pulls' # pulls
               => phase = "producing" /\ phase' = "producing" /\ pulls' = pulls + 1
          /\ postCalls' # postCalls => phase' = "post" /\ phase # "post"
          /\ phase' # phase => phase' # "producing"]_vars
  /\ [][frames' # frames =>
          /\ Len(frames') = Len(frames) + 1
          /\ phase' = "producing" /\ pulls' = 0 /\ postCalls' = 0]_vars

C32_Witness ==
  /\ phase = "done"
  /\ outcome = "resolved"
  /\ cycle = 2
  /\ postCalls = 1
  /\ pulls = MaxItems

\* C33: a pipeline that fails while prep is still producing does not stop
\* the production: the run is still pending, the next item can still be
\* pulled and gets its own pipeline (started like any other), and the run
\* rejects with a pipeline's failure only on or after the exhaustion of the
\* sequence.
C33_FailureDoesNotStopProduction ==
  /\ [](phase = "producing" => outcome = "pending")
  /\ []((phase = "producing" /\ Failed(pipes) # {} /\ pulls < MaxItems) =>
          ENABLED (PrepYield /\ pulls' = pulls + 1
                             /\ pipes'[pulls'] = NewPipe(node, pulls')))
  /\ [][(outcome = "pending" /\ outcome' = "rejected"
                             /\ runError'.kind \in PipelineErrors) =>
          /\ phase \in {"producing", "joining"}
          /\ phase = "producing" => pulls' = pulls /\ Failed(pipes) # {}]_vars

C33_Witness ==
  /\ phase = "producing"
  /\ outcome = "pending"
  /\ pulls = 1
  /\ pulls < MaxItems
  /\ pipes[1].pc = "failed"
  /\ pipes[1].error.kind = "exec"
  /\ firstFailed = 1

\* C34: an item is in prepItems by the time exec is first invoked for it,
\* a result is in execResults only when the retry wrapper of its item has
\* returned, and at every moment length(execResults) <= length(prepItems)
\* <= number of pipelines launched.
C34_ListDiscipline ==
  /\ Len(execResults) <= Len(prepItems)
  /\ Len(prepItems) <= Len(pipes)
  /\ \A i \in Launched :
       pipes[i].execCalls >= 1 =>
         i \in DOMAIN prepItems /\ prepItems[i] = Item(cycle, i)
  /\ \A k \in DOMAIN execResults :
       \E i \in Launched : /\ pipes[i].pc = "done"
                           /\ execResults[k].of = prepItems[i]
  /\ Len(execResults) = Cardinality({i \in Launched : pipes[i].pc = "done"})

C34_Witness ==
  /\ phase = "producing"
  /\ Launched = {1, 2}
  /\ pipes[1].pc = "delay"
  /\ pipes[2].pc = "done"
  /\ Len(prepItems) = 2
  /\ execResults = <<ExecValue(prepItems[2])>>

\* C35: on a path without failure at most one node's cycle is active at a
\* time: the next node's cycle is entered (its prep invoked) only from the
\* routing that follows the current node's returned post, when every
\* pipeline of the current cycle is through, and while post runs no
\* pipeline of the cycle is in flight; so no exec of one cycle is in flight
\* while another cycle runs.
C35_OneCycleAtATime ==
  /\ []((phase \in {"post", "route"}) =>
          /\ AllDone(pipes)
          /\ postCalls = 1
          /\ Len(execResults) = Len(pipes))
  /\ []((phase = "route") => action # UNSET)
  /\ [][(frames # << >> /\ frames' # frames) =>
          /\ phase = "route"
          /\ outcome = "pending"
          /\ postCalls = 1
          /\ action # UNSET
          /\ \A i \in Launched : ~InFlight(pipes[i])
          /\ AllDone(pipes)
          /\ pipes' = << >>]_vars

C35_Witness ==
  /\ cycle = 2
  /\ phase = "producing"
  /\ pulls = 0
  /\ outcome = "pending"
  /\ frames[1].node # frames[2].node
  /\ {<<"pipeline", frames[1].node>>, <<"post", frames[1].node>>} \subseteq stored

\* C36: prepItems and execResults are fresh for every cycle: a cycle starts
\* with both empty, they only ever hold items yielded and results produced
\* in the current cycle, and so does what post receives, also when the
\* cycle is a revisit of a node.
C36_FreshLists ==
  /\ pulls = 0 => prepItems = << >> /\ execResults = << >>
  /\ Len(prepItems) = pulls
  /\ \A k \in DOMAIN prepItems : prepItems[k].cycle = cycle
  /\ \A k \in DOMAIN execResults : execResults[k].of.cycle = cycle
  /\ postCalls > 0 =>
       /\ \A k \in DOMAIN postArgs[1] : postArgs[1][k].cycle = cycle
       /\ \A k \in DOMAIN postArgs[2] : postArgs[2][k].of.cycle = cycle
       /\ Len(postArgs[1]) = pulls

C36_Witness ==
  /\ cycle = 2
  /\ frames[1].node = frames[2].node
  /\ postCalls = 1
  /\ postArgs[1] = <<Item(2, 1)>>
  /\ postArgs[2] = <<FallbackValue(Item(2, 1))>>

\* what a cycle without items has done once past production
EmptyCycle ==
  (pulls = 0 /\ phase \in {"joining", "post", "route", "done"}
             /\ runError # PrepError) =>
    /\ pipes = << >>
    /\ phase # "joining"
    /\ postCalls = 1
    /\ postArgs = <<<< >>, << >>, store>>
    /\ phase = "post" => \A a \in Actions : ENABLED (PostResolve(a) /\ phase' = "route"
                                                                    /\ action' = a)
    /\ (phase = "route" /\ Target(node, action) # NoNode /\ cycle < MaxCycles) =>
         ENABLED (Route /\ frames' = Append(frames, [node |-> Target(node, action),
                                                     store |-> store]))
    /\ (phase = "route" /\ Target(node, action) = NoNode) =>
         ENABLED (Route /\ outcome' = "resolved")

\* C37: when prep yields no item, exec, onError and execFallback are never
\* invoked in the cycle (there is no pipeline to invoke them), post is
\* invoked once with two empty lists, and the routing on its action goes
\* on as for any other cycle.
C37_EmptyCycle == []EmptyCycle

C37_Witness ==
  /\ cycle = 1
  /\ pulls = 0
  /\ phase = "route"
  /\ postCalls = 1
  /\ postArgs[1] = << >>
  /\ postArgs[2] = << >>
  /\ action = "a"
  /\ Target(node, action) = "n2"

PostFailure ==
  /\ phase = "post" =>
       ENABLED (/\ PostThrow
                /\ outcome' = "rejected"
                /\ runError' = PostError
                /\ phase' = "done"
                /\ frames' = frames)
  /\ runError = PostError =>
       /\ outcome = "rejected"
       /\ phase = "done"
       /\ postCalls = 1
       /\ action = UNSET
       /\ ~ ENABLED Route
       /\ ~ ENABLED PostResolve(UNDEFINED)

\* C39: when post fails, the run rejects with post's failure and no further
\* node is run: there is no action to route on, also when the node has a
\* default edge.
C39_PostFailure == []PostFailure

C39_Witness ==
  /\ runError = PostError
  /\ outcome = "rejected"
  /\ cycle = 1
  /\ cycle < MaxCycles
  /\ getEdge(node, DefaultKey) = "n2"
  /\ pulls = 1

\* what a failure of the pull does and leaves behind
PrepFailure ==
  /\ phase = "producing" =>
       ENABLED (/\ PrepThrow
                /\ outcome' = "rejected"
                /\ runError' = PrepError
                /\ phase' = "done"
                /\ postCalls' = 0
                /\ pipes' = pipes
                /\ frames' = frames)
  /\ runError = PrepError =>
       /\ outcome = "rejected"
       /\ phase = "done"
       /\ postCalls = 0
       /\ postArgs = << >>
       /\ action = UNSET
       /\ ~ ENABLED Route
       /\ ~ ENABLED PrepDone
       /\ \A i \in Launched :
            /\ pipes[i].pc = "exec" =>
                 /\ ENABLED (/\ ExecResolve(i)
                             /\ pipes'[i].pc = "done"
                             /\ Len(execResults') = Len(execResults) + 1
                             /\ outcome' = outcome /\ runError' = runError
                             /\ postCalls' = 0 /\ frames' = frames)
                 /\ ENABLED (/\ ExecReject(i)
                             /\ pipes'[i].pc # "exec"
                             /\ outcome' = outcome /\ runError' = runError
                             /\ postCalls' = 0 /\ frames' = frames)
            /\ pipes[i].pc = "delay" =>
                 ENABLED (/\ RetryTimer(i)
                          /\ pipes'[i].execCalls = pipes[i].execCalls + 1
                          /\ outcome' = outcome /\ runError' = runError)

\* C40: when pulling from prep fails, the run rejects with that failure,
\* post is not invoked and no further node is run; the pipelines launched
\* before are not cancelled: each one still in flight can go on (its exec
\* can resolve or reject, its retry timer can fire) without changing the
\* run's outcome.
C40_PrepFailure == []PrepFailure

C40_Witness ==
  /\ runError = PrepError
  /\ outcome = "rejected"
  /\ Launched = {1}
  /\ pipes[1].pc = "exec"
  /\ pipes[1].execCalls = 2
  /\ getEdge(node, DefaultKey) = "n2"

====
